---- MODULE Spec2Model ----
(***************************************************************************)
(* msal_extensions: the cross-process lock (cache_lock.py) and the         *)
(* persistence layer (persistence.py, osx.py).                             *)
(*                                                                         *)
(* Part I models CrossPlatLock used by several processes on one lock path. *)
(* The file system is modelled at the level the code depends on: the path  *)
(* names at most one file (an inode), a process keeps the file it opened   *)
(* even when the path is unlinked (POSIX), and os.remove of a file that    *)
(* another process has open fails with EACCES on Windows.                  *)
(*                                                                         *)
(* Part II models one persistence handle (FilePersistence,                 *)
(* FilePersistenceWithDataProtection, KeychainPersistence,                 *)
(* LibsecretPersistence) and the storage behind it: the file at its        *)
(* location with its bytes and modification time, and the secret stores.   *)
(***************************************************************************)
EXTENDS Integers, Sequences, FiniteSets, TLC

(* ------------------------------ bounds -------------------------------- *)

\* number of processes that use the same lock path
NumProcs == 2

Procs == 1..NumProcs

(* ------------------------- program constants -------------------------- *)

\* cache_lock.py:42  timeout = 5 (seconds)
timeout == 5
\* cache_lock.py:43  check_interval = 0.25 (seconds), i.e. 4 checks a second
checks_per_second == 4
\* the advisory loop's budget in units of check_interval
TimeoutTicks == timeout * checks_per_second

\* errno values (0 stands for "no error")
ENOENT == 2
EACCES == 13
EPERM == 1

VARIABLES
    platform,     \* "posix" or "windows": decides what os.remove does to an open file
    python3,      \* TRUE on Python 3: open(..., 'x') exists and text files are read
                  \* with universal newlines; FALSE on Python 2
    pathInode,    \* the file the lock path names, 0 when the path does not exist
    pc,           \* pc[p]: where process p is in __enter__ / critical section / __exit__
    fh,           \* fh[p]: the file the portalocker handle of p has open, 0 when closed
    locked,       \* locked[p]: p holds the OS-level exclusive lock on fh[p]
    elapsed,      \* elapsed[p]: time p has spent inside _try_to_create_lock_file, in ticks
    created,      \* created[p]: what _try_to_create_lock_file returned to p
    lastInode,    \* lastInode[p]: the file p opened and has not yet tried to remove (history)
    rmErrno       \* rmErrno[p]: errno of the os.remove of p's last __exit__ (0: removed)

VARIABLES
    handle,       \* "none" before construction, then "ready", or "failed" (constructor raised)
    variant,      \* the class of the handle: "File", "DataProtection", "Keychain", "Libsecret"
    location,     \* self._location of the FilePersistence (data file or signal file)
    dirExists,    \* the parent directory named in the location exists
    fileExists,   \* the file at the location exists
    fileBytes,    \* the bytes of the file at the location
    mtime,        \* the modification time of the file at the location
    now,          \* the reading of the clock that stamps modification times
    keychain,     \* the Keychain: entry of each (service, account) key
    libsecret,    \* the libsecret entry of the handle's schema and attributes
    last,         \* the call made last on the handle and its outcome
    prevSaved,    \* the call made before the last one was a save() that returned
                  \* (and no failure was injected into it)
    saved,        \* the content of the latest save() that returned without raising
    saveFailed,   \* a save() on the handle has raised or has stored nothing
    everSaved,    \* save() has been called on the handle
    everTouched,  \* touch() has been called on the handle by its user
    nativeUsed,   \* the native secret store (Keychain, libsecret) has been called
    history       \* the contents whose save() into the file has completed

envVars == <<platform, python3>>

lockVars == <<pathInode, pc, fh, locked, elapsed, created, lastInode, rmErrno>>

persistVars == <<handle, variant, location, dirExists, fileExists, fileBytes, mtime, now,
                 keychain, libsecret, last, prevSaved, saved, saveFailed,
                 everSaved, everTouched, nativeUsed, history>>

vars == <<envVars, lockVars, persistVars>>

(* ------------------------- file system helpers ------------------------ *)

\* a file is in use while the path names it or a process has it open; a file
\* number is not given out again while a process still refers to it (lastInode)
InodeInUse(i) ==
    \/ pathInode = i
    \/ \E q \in Procs : fh[q] = i \/ lastInode[q] = i

\* the file a create makes: one that is not in use (the smallest such number)
NewInode ==
    CHOOSE i \in 1..(NumProcs + 1) :
        /\ ~InodeInUse(i)
        /\ \A j \in 1..(i - 1) : InodeInUse(j)

\* another process holds the OS-level lock on the file p has open
LockedByOther(p) == \E q \in Procs \ {p} : locked[q] /\ fh[q] = fh[p]

\* another process has the file at the lock path open
OpenByOther(p) == pathInode # 0 /\ \E q \in Procs \ {p} : fh[q] = pathInode

\* errno of os.remove(self._lockpath) by p, 0 when the file is removed
RemoveErrno(p) ==
    IF pathInode = 0 THEN ENOENT
    ELSE IF platform = "windows" /\ OpenByOther(p) THEN EACCES
    ELSE 0

\* errno values of os.remove that come from the environment alone
\* (0: no such failure; EPERM: the directory does not allow the removal)
RemoveFaults == {0, EPERM}

\* cache_lock.py:73  the errno values __exit__ does not re-raise
Swallowed_All(e) == TRUE

Swallowed_OnlyENOENT(e) == e = ENOENT

Swallowed(e) == ~(e # ENOENT /\ e # EACCES)

(* ------------------------- persistence: data -------------------------- *)

\* longest content string saved
MaxLen == 1
\* largest reading of the clock
MaxClock == 2

\* the characters of content strings: a letter outside ASCII, carriage
\* return and line feed
Chars == {"e_acute", "CR", "LF"}

RECURSIVE SeqsUpTo(_, _)
SeqsUpTo(S, n) ==
    IF n = 0 THEN {<<>>}
    ELSE LET shorter == SeqsUpTo(S, n - 1)
         IN  shorter \cup {Append(s, c) : s \in {t \in shorter : Len(t) = n - 1}, c \in S}

Content == SeqsUpTo(Chars, MaxLen)

\* str.encode('utf-8') / bytes.decode('utf-8'), a character at a time
Utf8Char(c) ==
    CASE c = "CR" -> <<"0D">>
      [] c = "LF" -> <<"0A">>
      [] c = "e_acute" -> <<"C3", "A9">>

RECURSIVE Utf8Encode(_)
Utf8Encode(s) ==
    IF s = <<>> THEN <<>> ELSE Utf8Char(Head(s)) \o Utf8Encode(Tail(s))

RECURSIVE Utf8Decode(_)
Utf8Decode(b) ==
    IF b = <<>> THEN <<>>
    ELSE IF Head(b) = "0D" THEN <<"CR">> \o Utf8Decode(Tail(b))
    ELSE IF Head(b) = "0A" THEN <<"LF">> \o Utf8Decode(Tail(b))
    ELSE IF Head(b) = "C3" /\ Len(b) >= 2 /\ b[2] = "A9"
         THEN <<"e_acute">> \o Utf8Decode(Tail(Tail(b)))
    ELSE <<"invalid">> \o Utf8Decode(Tail(b))

\* what a text-mode file object writes for '\n': os.linesep on Windows
RECURSIVE NewlinesOut(_, _)
NewlinesOut(s, plat) ==
    IF s = <<>> THEN <<>>
    ELSE IF Head(s) = "LF" /\ plat = "windows"
         THEN <<"CR", "LF">> \o NewlinesOut(Tail(s), plat)
    ELSE <<Head(s)>> \o NewlinesOut(Tail(s), plat)

\* what a text-mode file object returns for the line ends it reads:
\* Python 3 (newline=None) turns '\r\n' and a lone '\r' into '\n' everywhere;
\* Python 2 ('r' of the C library) turns '\r\n' into '\n' on Windows only
RECURSIVE NewlinesIn(_, _, _)
NewlinesIn(s, plat, py3) ==
    IF s = <<>> THEN <<>>
    ELSE IF Head(s) = "CR" /\ Len(s) >= 2 /\ s[2] = "LF" /\ (py3 \/ plat = "windows")
         THEN <<"LF">> \o NewlinesIn(Tail(Tail(s)), plat, py3)
    ELSE IF Head(s) = "CR" /\ py3
         THEN <<"LF">> \o NewlinesIn(Tail(s), plat, py3)
    ELSE <<Head(s)>> \o NewlinesIn(Tail(s), plat, py3)

\* open(location, 'w+') ... handle.write(content): the bytes that reach the file
TextWrite(content, plat) == Utf8Encode(NewlinesOut(content, plat))

\* open(location, 'r') ... handle.read(): the text the bytes are read as
TextRead(bytes, plat, py3) == NewlinesIn(Utf8Decode(bytes), plat, py3)

\* WindowsDataProtectionAgent.protect / unprotect: a header and the utf-8
\* bytes of the text, each transformed; unprotect of anything else fails
CipherByte(b) == "x" \o b
PlainByte(x) ==
    CASE x = "x0D" -> "0D" [] x = "x0A" -> "0A"
      [] x = "xC3" -> "C3" [] x = "xA9" -> "A9"

Protect(content) ==
    LET b == Utf8Encode(content)
    IN  <<"DPAPI">> \o [i \in 1..Len(b) |-> CipherByte(b[i])]

IsProtected(data) == data # <<>> /\ Head(data) = "DPAPI"

Unprotect(data) ==
    LET x == Tail(data)
    IN  Utf8Decode([i \in 1..Len(x) |-> PlainByte(x[i])])

\* osx.py:14-17  the named status codes of KeychainError
ACCESS_DENIED == -128
NO_SUCH_KEYCHAIN == -25294
NO_DEFAULT == -25307
ITEM_NOT_FOUND == -25300

\* errno of a decode failure of the data protection API (a Windows error)
EINVAL == 22

\* the keys of the Keychain: the handle's (service, account) and another one
Keys == {"mine", "other"}

NoEntry == [present |-> FALSE, value |-> <<>>]
Entry(v) == [present |-> TRUE, value |-> v]

\* the generic password another application keeps under its own key
OtherEntry == Entry(<<"C3", "A9">>)

\* the FilePersistence locations a caller may pass: empty, a bare file name,
\* a file in a directory
Locations == {"", "cache", "dir/cache"}

\* os.path.dirname(location)
DirName(loc) == IF loc = "dir/cache" THEN "dir" ELSE ""

\* what a call on the handle has returned or raised
\*   kind: "ok", "PersistenceNotFound", "OSError", "KeychainError", "ValueError"
\*   fault: the failure the environment injected into the call ("none" if none)
\*   text: the string returned; time: the timestamp returned; errno: the
\*   errno (or native status) of the exception raised
Outcome(op, kind, text, time, errno, fault) ==
    [op |-> op, kind |-> kind, text |-> text, time |-> time, errno |-> errno,
     fault |-> fault]

NoCall == Outcome("none", "ok", <<>>, 0, 0, "none")

Returned(op, fault) == Outcome(op, "ok", <<>>, 0, 0, fault)
Raised(op, kind, errno, fault) == Outcome(op, kind, <<>>, 0, errno, fault)

\* persistence.py:63-67  PersistenceNotFound.__init__: err_no or errno.ENOENT
PersistenceNotFound_NoDefault(op, err_no, fault) ==
    Raised(op, "PersistenceNotFound", err_no, fault)

PersistenceNotFound(op, err_no, fault) ==
    Raised(op, "PersistenceNotFound", IF err_no # 0 THEN err_no ELSE ENOENT, fault)

(* --------------------------- initial states --------------------------- *)

\* no lock has been used yet
LockStart ==
    /\ pathInode = 0
    /\ pc = [p \in Procs |-> "idle"]
    /\ fh = [p \in Procs |-> 0]
    /\ locked = [p \in Procs |-> FALSE]
    /\ elapsed = [p \in Procs |-> 0]
    /\ created = [p \in Procs |-> FALSE]
    /\ lastInode = [p \in Procs |-> 0]
    /\ rmErrno = [p \in Procs |-> 0]

\* no handle has been constructed and nothing is stored at its location
PersistStart ==
    /\ handle = "none"
    /\ variant = "none"
    /\ location = ""
    /\ fileExists = FALSE
    /\ fileBytes = <<>>
    /\ mtime = 0
    /\ now = 1
    /\ libsecret = NoEntry
    /\ last = NoCall
    /\ prevSaved = FALSE
    /\ saved = NoEntry
    /\ saveFailed = FALSE
    /\ everSaved = FALSE
    /\ everTouched = FALSE
    /\ nativeUsed = FALSE
    /\ history = {}

(* ----------------------------- CrossPlatLock -------------------------- *)

LockInit ==
    /\ platform \in {"posix", "windows"}
    /\ python3 \in BOOLEAN
    /\ LockStart
    /\ PersistStart
    /\ dirExists = FALSE
    /\ keychain = [k \in Keys |-> NoEntry]

\* __enter__ is called (for the first time, or again after an earlier call
\* returned or raised): _try_to_create_lock_file starts its clock
Enter(p) ==
    /\ pc[p] \in {"idle", "done", "enter_raised", "exit_raised"}
    /\ pc' = [pc EXCEPT ![p] = "create"]
    /\ elapsed' = [elapsed EXCEPT ![p] = 0]
    /\ created' = [created EXCEPT ![p] = FALSE]
    /\ lastInode' = [lastInode EXCEPT ![p] = 0]
    /\ rmErrno' = [rmErrno EXCEPT ![p] = 0]
    /\ UNCHANGED <<platform, python3, pathInode, fh, locked>>
    /\ UNCHANGED persistVars

\* open(self._lockpath, 'x') succeeds: the file did not exist; return True
CreateLockFile(p) ==
    /\ pc[p] = "create"
    /\ elapsed[p] < TimeoutTicks
    /\ python3
    /\ pathInode = 0
    /\ pathInode' = NewInode
    /\ created' = [created EXCEPT ![p] = TRUE]
    /\ elapsed' = [elapsed EXCEPT ![p] = 0]
    /\ pc' = [pc EXCEPT ![p] = "open"]
    /\ UNCHANGED <<platform, python3, fh, locked, lastInode, rmErrno>>
    /\ UNCHANGED persistVars

\* open(..., 'x') raises ValueError (Python 2): return False at once
CreateUnsupported(p) ==
    /\ pc[p] = "create"
    /\ elapsed[p] < TimeoutTicks
    /\ ~python3
    /\ elapsed' = [elapsed EXCEPT ![p] = 0]
    /\ pc' = [pc EXCEPT ![p] = "open"]
    /\ UNCHANGED <<platform, python3, pathInode, fh, locked, created,
                   lastInode, rmErrno>>
    /\ UNCHANGED persistVars

\* a retry that does not use up the deadline
CreateExists_NoDeadline(p) ==
    /\ pc[p] = "create"
    /\ python3
    /\ pathInode # 0
    /\ UNCHANGED <<platform, python3, pathInode, pc, fh, locked, elapsed, created,
                   lastInode, rmErrno>>
    /\ UNCHANGED persistVars

\* open(..., 'x') raises FileExistsError: sleep check_interval (or longer) and retry
CreateExists(p) ==
    /\ pc[p] = "create"
    /\ elapsed[p] < TimeoutTicks
    /\ python3
    /\ pathInode # 0
    /\ \E t \in (elapsed[p] + 1)..TimeoutTicks :
          elapsed' = [elapsed EXCEPT ![p] = t]
    /\ UNCHANGED <<platform, python3, pathInode, pc, fh, locked, created,
                   lastInode, rmErrno>>
    /\ UNCHANGED persistVars

\* a timeout of the advisory step that makes __enter__ give up
CreateTimeout_Aborts(p) ==
    /\ pc[p] = "create"
    /\ elapsed[p] >= TimeoutTicks
    /\ elapsed' = [elapsed EXCEPT ![p] = 0]
    /\ pc' = [pc EXCEPT ![p] = "enter_raised"]
    /\ UNCHANGED <<platform, python3, pathInode, fh, locked, created,
                   lastInode, rmErrno>>
    /\ UNCHANGED persistVars

\* the loop condition timeout_end > current_time() is false: return False
CreateTimeout(p) ==
    /\ pc[p] = "create"
    /\ elapsed[p] >= TimeoutTicks
    /\ elapsed' = [elapsed EXCEPT ![p] = 0]
    /\ pc' = [pc EXCEPT ![p] = "open"]
    /\ UNCHANGED <<platform, python3, pathInode, fh, locked, created,
                   lastInode, rmErrno>>
    /\ UNCHANGED persistVars

\* self._lock.__enter__(): portalocker opens the path in append mode,
\* which creates the file when the path does not exist
OpenLockFile(p) ==
    /\ pc[p] = "open"
    /\ LET i == IF pathInode = 0 THEN NewInode ELSE pathInode
       IN  /\ pathInode' = i
           /\ fh' = [fh EXCEPT ![p] = i]
           /\ lastInode' = [lastInode EXCEPT ![p] = i]
    /\ pc' = [pc EXCEPT ![p] = "lock"]
    /\ UNCHANGED <<platform, python3, locked, elapsed, created, rmErrno>>
    /\ UNCHANGED persistVars

\* the LOCK_EX | LOCK_NB lock is granted; the handle is truncated, the pid
\* payload written and the handle returned: the critical section begins
OsLock(p) ==
    /\ pc[p] = "lock"
    /\ ~LockedByOther(p)
    /\ locked' = [locked EXCEPT ![p] = TRUE]
    /\ pc' = [pc EXCEPT ![p] = "cs"]
    /\ UNCHANGED <<platform, python3, pathInode, fh, elapsed, created,
                   lastInode, rmErrno>>
    /\ UNCHANGED persistVars

\* the non-blocking lock is refused because another process holds it and
\* portalocker gives up (at once, or when its own retries are used up): it
\* closes the handle and its exception leaves __enter__, which catches nothing
OsLockRefused(p) ==
    /\ pc[p] = "lock"
    /\ LockedByOther(p)
    /\ fh' = [fh EXCEPT ![p] = 0]
    /\ pc' = [pc EXCEPT ![p] = "enter_raised"]
    /\ UNCHANGED <<platform, python3, pathInode, locked, elapsed, created,
                   lastInode, rmErrno>>
    /\ UNCHANGED persistVars

\* __exit__, first half: self._lock.__exit__ unlocks and closes the handle
Unlock(p) ==
    /\ pc[p] = "cs"
    /\ locked' = [locked EXCEPT ![p] = FALSE]
    /\ fh' = [fh EXCEPT ![p] = 0]
    /\ pc' = [pc EXCEPT ![p] = "remove"]
    /\ UNCHANGED <<platform, python3, pathInode, elapsed, created,
                   lastInode, rmErrno>>
    /\ UNCHANGED persistVars

\* __exit__, second half: os.remove(self._lockpath) and the errno filter
RemoveLockFile(p) ==
    /\ pc[p] = "remove"
    /\ \E fault \in RemoveFaults :
          LET e == IF fault # 0 THEN fault ELSE RemoveErrno(p)
          IN  /\ rmErrno' = [rmErrno EXCEPT ![p] = e]
              /\ pathInode' = IF e = 0 THEN 0 ELSE pathInode
              /\ pc' = [pc EXCEPT ![p] = IF e = 0 \/ Swallowed(e)
                                         THEN "done" ELSE "exit_raised"]
    /\ created' = [created EXCEPT ![p] = FALSE]
    /\ lastInode' = [lastInode EXCEPT ![p] = 0]
    /\ UNCHANGED <<platform, python3, fh, locked, elapsed>>
    /\ UNCHANGED persistVars

LockStep(p) ==
    \/ Enter(p)
    \/ CreateLockFile(p)
    \/ CreateUnsupported(p)
    \/ CreateExists(p)
    \/ CreateTimeout(p)
    \/ OpenLockFile(p)
    \/ OsLock(p)
    \/ OsLockRefused(p)
    \/ Unlock(p)
    \/ RemoveLockFile(p)

LockNext == \E p \in Procs : LockStep(p)

LockSpec == LockInit /\ [][LockNext]_vars

\* The handover scenario: every process locks once and the caller does not
\* retry after an exception.  A process
\* that has started __enter__ keeps taking steps (the OS schedules it) and a
\* critical section ends, so each step but the first is weakly fair.
FirstEnter(p) == pc[p] = "idle" /\ Enter(p)

LockProgress(p) ==
    \/ CreateLockFile(p)
    \/ CreateUnsupported(p)
    \/ CreateExists(p)
    \/ CreateTimeout(p)
    \/ OpenLockFile(p)
    \/ OsLock(p)
    \/ OsLockRefused(p)
    \/ Unlock(p)
    \/ RemoveLockFile(p)

LockLiveNext == \E p \in Procs : FirstEnter(p) \/ LockProgress(p)

LockLiveSpec ==
    /\ LockInit
    /\ [][LockLiveNext]_vars
    /\ \A p \in Procs : WF_vars(LockProgress(p))

(* ----------------------- persistence: operations ---------------------- *)

Variants == {"File", "DataProtection", "Keychain", "Libsecret"}

\* the platform on which the constructor of a class can import what it needs
Supported(v) ==
    CASE v = "File" -> TRUE
      [] v = "DataProtection" -> platform = "windows"
      [] v = "Keychain" -> platform = "posix"
      [] v = "Libsecret" -> platform = "posix"

PersistInit ==
    /\ platform \in {"posix", "windows"}
    /\ python3 \in BOOLEAN
    /\ LockStart
    /\ PersistStart
    /\ dirExists \in BOOLEAN
    /\ keychain = [k \in Keys |-> NoEntry]

\* every call on the handle is recorded with its outcome
Record(r) ==
    /\ prevSaved' = (last.op = "save" /\ last.kind = "ok" /\ last.fault = "none")
    /\ last' = r

\* the parent directory of the location exists (a bare file name needs none)
ParentExists == DirName(location) = "" \/ dirExists

\* _mkdir_p(path): whether the directory "dir" exists after the call
\* (os.makedirs creates every missing component and accepts an existing one)
MkdirP_Nothing(path) == dirExists

MkdirP(path) == IF path = "" THEN dirExists ELSE TRUE

\* errno of opening the location for writing or of touching it, 0 on success
OpenForWriteErrno(fault) ==
    IF fault = "file" THEN EACCES
    ELSE IF ~ParentExists THEN ENOENT
    ELSE 0

\* a missing file reported with an errno other than ENOENT
OpenForReadErrno_NoENOENT(fault) ==
    IF fault = "file" \/ ~fileExists THEN EACCES
    ELSE 0

\* errno of opening the location for reading or of os.path.getmtime, 0 on success
OpenForReadErrno(fault) ==
    IF fault = "file" THEN EACCES
    ELSE IF ~fileExists THEN ENOENT
    ELSE 0

\* the effect of Path(location).touch() on the file
TouchFile_KeepTime ==
    /\ fileExists' = TRUE
    /\ fileBytes' = (IF fileExists THEN fileBytes ELSE <<>>)
    /\ mtime' = (IF fileExists THEN mtime ELSE now)

TouchFile ==
    /\ fileExists' = TRUE
    /\ fileBytes' = (IF fileExists THEN fileBytes ELSE <<>>)
    /\ mtime' = now

\* the effect of open(location, 'w+' or 'wb+') and handle.write(data)
WriteFile(data) ==
    /\ fileExists' = TRUE
    /\ fileBytes' = data
    /\ mtime' = now

FileUnchanged == UNCHANGED <<fileExists, fileBytes, mtime>>

\* LibsecretPersistence.__init__ calls trial_run(), which stores, loads and
\* clears a test secret, before it looks at schema_name and attributes; the
\* other constructors make no native call
NativeAfterInit(v) == nativeUsed \/ v = "Libsecret"

\* the constructor raises ValueError: FilePersistence on an empty location,
\* KeychainPersistence on an empty service_name or account_name, LibSecretAgent
\* on an empty schema_name or attributes (passed here as service_name and
\* account_name)
InitRaises(v, loc, service_name, account_name) ==
    \/ loc = ""
    \/ v \in {"Keychain", "Libsecret"} /\ (service_name = "" \/ account_name = "")

\* FilePersistence.__init__, FilePersistenceWithDataProtection.__init__,
\* KeychainPersistence.__init__, LibsecretPersistence.__init__
Construct(v, loc, service_name, account_name) ==
    /\ handle = "none"
    /\ Supported(v)
    /\ variant' = v
    /\ nativeUsed' = NativeAfterInit(v)
    /\ IF InitRaises(v, loc, service_name, account_name)
       THEN /\ handle' = "failed"
            /\ Record(Raised("__init__", "ValueError", 0, "none"))
            /\ UNCHANGED <<location, dirExists>>
       ELSE /\ handle' = "ready"
            /\ location' = loc
            /\ dirExists' = MkdirP(DirName(loc))
            /\ Record(Returned("__init__", "none"))
    /\ UNCHANGED <<fileExists, fileBytes, mtime, now, keychain, libsecret, saved,
                   saveFailed, everSaved, everTouched>>
    /\ UNCHANGED <<envVars, lockVars, history>>

\* FilePersistence.save(content)
FileSave(content, fault) ==
    /\ handle = "ready"
    /\ variant = "File"
    /\ everSaved' = TRUE
    /\ LET e == OpenForWriteErrno(fault)
       IN  IF e # 0
           THEN /\ Record(Raised("save", "OSError", e, fault))
                /\ saveFailed' = TRUE
                /\ FileUnchanged
                /\ UNCHANGED saved
           ELSE /\ WriteFile(TextWrite(content, platform))
                /\ Record(Returned("save", fault))
                /\ saved' = Entry(content)
                /\ UNCHANGED saveFailed
    /\ UNCHANGED <<handle, variant, location, dirExists, now, keychain, libsecret,
                   everTouched>>
    /\ UNCHANGED <<envVars, lockVars, nativeUsed, history>>

\* a load() that turns every I/O error into PersistenceNotFound
FileLoad_WrapsAll(fault) ==
    /\ handle = "ready"
    /\ variant = "File"
    /\ LET e == OpenForReadErrno(fault)
       IN  Record(IF e # 0 THEN PersistenceNotFound("load", 0, fault)
                  ELSE Outcome("load", "ok", TextRead(fileBytes, platform, python3),
                               0, 0, fault))
    /\ UNCHANGED <<handle, variant, location, dirExists, fileExists, fileBytes, mtime,
                   now, keychain, libsecret, saved, saveFailed, everSaved, everTouched>>
    /\ UNCHANGED <<envVars, lockVars, nativeUsed, history>>

\* FilePersistence.load()
FileLoad(fault) ==
    /\ handle = "ready"
    /\ variant = "File"
    /\ LET e == OpenForReadErrno(fault)
       IN  Record(IF e = ENOENT THEN PersistenceNotFound("load", 0, fault)
                  ELSE IF e # 0 THEN Raised("load", "OSError", e, fault)
                  ELSE Outcome("load", "ok", TextRead(fileBytes, platform, python3),
                               0, 0, fault))
    /\ UNCHANGED <<handle, variant, location, dirExists, fileExists, fileBytes, mtime,
                   now, keychain, libsecret, saved, saveFailed, everSaved, everTouched>>
    /\ UNCHANGED <<envVars, lockVars, nativeUsed, history>>

\* FilePersistenceWithDataProtection.save(content)
DataProtectionSave(content, fault) ==
    /\ handle = "ready"
    /\ variant = "DataProtection"
    /\ everSaved' = TRUE
    /\ LET e == OpenForWriteErrno(fault)
       IN  IF e # 0
           THEN /\ Record(Raised("save", "OSError", e, fault))
                /\ saveFailed' = TRUE
                /\ FileUnchanged
                /\ UNCHANGED saved
           ELSE /\ WriteFile(Protect(content))
                /\ Record(Returned("save", fault))
                /\ saved' = Entry(content)
                /\ UNCHANGED saveFailed
    /\ UNCHANGED <<handle, variant, location, dirExists, now, keychain, libsecret,
                   everTouched>>
    /\ UNCHANGED <<envVars, lockVars, nativeUsed, history>>

\* FilePersistenceWithDataProtection.load()
DataProtectionLoad(fault) ==
    /\ handle = "ready"
    /\ variant = "DataProtection"
    /\ LET e == OpenForReadErrno(fault)
       IN  Record(IF e = ENOENT THEN PersistenceNotFound("load", 0, fault)
                  ELSE IF e # 0 THEN Raised("load", "OSError", e, fault)
                  ELSE IF ~IsProtected(fileBytes)
                       THEN Raised("load", "OSError", EINVAL, fault)
                  ELSE Outcome("load", "ok", Unprotect(fileBytes), 0, 0, fault))
    /\ UNCHANGED <<handle, variant, location, dirExists, fileExists, fileBytes, mtime,
                   now, keychain, libsecret, saved, saveFailed, everSaved, everTouched>>
    /\ UNCHANGED <<envVars, lockVars, nativeUsed, history>>

\* a time_last_modified() that stamps the file it reads with the current time
TimeLastModified_Stamps(fault) ==
    /\ handle = "ready"
    /\ LET e == OpenForReadErrno(fault)
       IN  /\ Record(IF e = ENOENT
                     THEN PersistenceNotFound("time_last_modified", 0, fault)
                     ELSE IF e # 0 THEN Raised("time_last_modified", "OSError", e, fault)
                     ELSE Outcome("time_last_modified", "ok", <<>>, mtime, 0, fault))
           /\ mtime' = IF e = 0 THEN now ELSE mtime
    /\ UNCHANGED <<handle, variant, location, dirExists, fileExists, fileBytes,
                   now, keychain, libsecret, saved, saveFailed, everSaved, everTouched>>
    /\ UNCHANGED <<envVars, lockVars, nativeUsed, history>>

\* FilePersistence.time_last_modified(), which the keyring classes delegate to
TimeLastModified(fault) ==
    /\ handle = "ready"
    /\ LET e == OpenForReadErrno(fault)
       IN  Record(IF e = ENOENT
                  THEN PersistenceNotFound("time_last_modified", 0, fault)
                  ELSE IF e # 0 THEN Raised("time_last_modified", "OSError", e, fault)
                  ELSE Outcome("time_last_modified", "ok", <<>>, mtime, 0, fault))
    /\ UNCHANGED <<handle, variant, location, dirExists, fileExists, fileBytes, mtime,
                   now, keychain, libsecret, saved, saveFailed, everSaved, everTouched>>
    /\ UNCHANGED <<envVars, lockVars, nativeUsed, history>>

\* FilePersistence.touch(), called by the user of a file-based handle
Touch(fault) ==
    /\ handle = "ready"
    /\ variant \in {"File", "DataProtection"}
    /\ everTouched' = TRUE
    /\ LET e == OpenForWriteErrno(fault)
       IN  IF e # 0
           THEN /\ Record(Raised("touch", "OSError", e, fault))
                /\ FileUnchanged
           ELSE /\ TouchFile
                /\ Record(Returned("touch", fault))
    /\ UNCHANGED <<handle, variant, location, dirExists, now, keychain, libsecret,
                   saved, saveFailed, everSaved>>
    /\ UNCHANGED <<envVars, lockVars, nativeUsed, history>>

\* get_location() of every class: the location of the FilePersistence
GetLocation ==
    /\ handle = "ready"
    /\ Record(Outcome("get_location", "ok", <<location>>, 0, 0, "none"))
    /\ UNCHANGED <<handle, variant, location, dirExists, fileExists, fileBytes, mtime,
                   now, keychain, libsecret, saved, saveFailed, everSaved, everTouched>>
    /\ UNCHANGED <<envVars, lockVars, nativeUsed, history>>

(* ------------------------------ Keychain ------------------------------ *)

\* Keychain.__enter__: status of SecKeychainCopyDefault
OpenStatus(fault) == IF fault = "open" THEN NO_DEFAULT ELSE 0

\* status of SecKeychainFindGenericPassword for the handle's (service, account)
FindStatus(fault) ==
    IF fault = "find" THEN ACCESS_DENIED
    ELSE IF keychain["mine"].present THEN 0
    ELSE ITEM_NOT_FOUND

\* status of SecKeychainItemModifyAttributesAndData / SecKeychainAddGenericPassword
WriteStatus(fault) == IF fault = "write" THEN ACCESS_DENIED ELSE 0

\* a set_generic_password that does not add when find reports no item
SetGenericPasswordStatus_NoAdd(fault) ==
    LET find_exit_status == FindStatus(fault)
    IN  IF find_exit_status = 0 THEN WriteStatus(fault) ELSE find_exit_status

\* a set_generic_password that reports no failure of the native calls
SetGenericPasswordStatus_Ignored(fault) == 0

\* Keychain.set_generic_password: the status it raises KeychainError with, 0 if none
SetGenericPasswordStatus(fault) ==
    LET find_exit_status == FindStatus(fault)
    IN  IF find_exit_status = 0 THEN WriteStatus(fault)
        ELSE IF find_exit_status = ITEM_NOT_FOUND THEN WriteStatus(fault)
        ELSE find_exit_status

\* a write that reaches the entries of every (service, account)
SetGenericPassword_AllKeys(store, value) == [k \in Keys |-> Entry(value)]

\* Keychain.set_generic_password when no native call fails: the entry found
\* under (service, account) is modified, or one is added when there is none;
\* the Keychain holds at most one generic password per (service, account)
SetGenericPassword(store, value) == [store EXCEPT !["mine"] = Entry(value)]

\* KeychainPersistence.save(content)
KeychainSave(content, fault) ==
    /\ handle = "ready"
    /\ variant = "Keychain"
    /\ everSaved' = TRUE
    /\ IF OpenStatus(fault) # 0
       THEN /\ Record(Raised("save", "OSError", OpenStatus(fault), fault))
            /\ saveFailed' = TRUE
            /\ FileUnchanged
            /\ UNCHANGED <<keychain, saved>>
       ELSE IF SetGenericPasswordStatus(fault) # 0
       THEN /\ Record(Raised("save", "KeychainError", SetGenericPasswordStatus(fault),
                             fault))
            /\ saveFailed' = TRUE
            /\ FileUnchanged
            /\ UNCHANGED <<keychain, saved>>
       ELSE /\ keychain' = SetGenericPassword(keychain, Utf8Encode(content))
            /\ IF OpenForWriteErrno(fault) # 0
               THEN /\ Record(Raised("save", "OSError", OpenForWriteErrno(fault), fault))
                    /\ saveFailed' = TRUE
                    /\ FileUnchanged
                    /\ UNCHANGED saved
               ELSE /\ TouchFile
                    /\ Record(Returned("save", fault))
                    /\ saved' = Entry(content)
                    /\ UNCHANGED saveFailed
    /\ UNCHANGED <<handle, variant, location, dirExists, now, libsecret, everTouched>>
    /\ nativeUsed' = TRUE
    /\ UNCHANGED <<envVars, lockVars, history>>

\* KeychainPersistence.load()
KeychainLoad(fault) ==
    /\ handle = "ready"
    /\ variant = "Keychain"
    /\ Record(IF OpenStatus(fault) # 0
              THEN Raised("load", "OSError", OpenStatus(fault), fault)
              ELSE IF FindStatus(fault) = ITEM_NOT_FOUND
              THEN PersistenceNotFound("load", 0, fault)
              ELSE IF FindStatus(fault) # 0
              THEN Raised("load", "KeychainError", FindStatus(fault), fault)
              ELSE Outcome("load", "ok", Utf8Decode(keychain["mine"].value), 0, 0, fault))
    /\ UNCHANGED <<handle, variant, location, dirExists, fileExists, fileBytes, mtime,
                   now, keychain, libsecret, saved, saveFailed, everSaved, everTouched>>
    /\ nativeUsed' = TRUE
    /\ UNCHANGED <<envVars, lockVars, history>>

(* ------------------------------ libsecret ----------------------------- *)

\* LibsecretPersistence.save(content); LibSecretAgent.save returns whether it stored
LibsecretSave(content, fault) ==
    /\ handle = "ready"
    /\ variant = "Libsecret"
    /\ everSaved' = TRUE
    /\ IF fault = "native"
       THEN /\ Record(Returned("save", fault))
            /\ saved' = Entry(content)
            /\ saveFailed' = TRUE
            /\ FileUnchanged
            /\ UNCHANGED libsecret
       ELSE /\ libsecret' = Entry(content)
            /\ IF OpenForWriteErrno(fault) # 0
               THEN /\ Record(Raised("save", "OSError", OpenForWriteErrno(fault), fault))
                    /\ saveFailed' = TRUE
                    /\ FileUnchanged
                    /\ UNCHANGED saved
               ELSE /\ TouchFile
                    /\ Record(Returned("save", fault))
                    /\ saved' = Entry(content)
                    /\ UNCHANGED saveFailed
    /\ UNCHANGED <<handle, variant, location, dirExists, now, keychain, everTouched>>
    /\ nativeUsed' = TRUE
    /\ UNCHANGED <<envVars, lockVars, history>>

\* LibsecretPersistence.load(); LibSecretAgent.load returns None when it finds nothing
LibsecretLoad ==
    /\ handle = "ready"
    /\ variant = "Libsecret"
    /\ Record(IF ~libsecret.present
              THEN PersistenceNotFound("load", 0, "none")
              ELSE Outcome("load", "ok", libsecret.value, 0, 0, "none"))
    /\ UNCHANGED <<handle, variant, location, dirExists, fileExists, fileBytes, mtime,
                   now, keychain, libsecret, saved, saveFailed, everSaved, everTouched>>
    /\ nativeUsed' = TRUE
    /\ UNCHANGED <<envVars, lockVars, history>>

(* ----------------------------- environment ---------------------------- *)

\* the clock that stamps modification times moves on
Tick ==
    /\ now < MaxClock
    /\ now' = now + 1
    /\ UNCHANGED <<handle, variant, location, dirExists, fileExists, fileBytes, mtime,
                   keychain, libsecret, last, prevSaved, saved, saveFailed, everSaved,
                   everTouched>>
    /\ UNCHANGED <<envVars, lockVars, nativeUsed, history>>

\* someone removes the (empty) parent directory
RemoveParentDir ==
    /\ dirExists
    /\ ~(fileExists /\ DirName(location) # "")
    /\ dirExists' = FALSE
    /\ UNCHANGED <<handle, variant, location, fileExists, fileBytes, mtime, now,
                   keychain, libsecret, last, prevSaved, saved, saveFailed, everSaved,
                   everTouched>>
    /\ UNCHANGED <<envVars, lockVars, nativeUsed, history>>

\* another application stores a generic password under its own (service,
\* account) in the Keychain, before the handle is first used
OtherAppStores ==
    /\ handle = "ready"
    /\ variant = "Keychain"
    /\ last.op = "__init__"
    /\ ~keychain["other"].present
    /\ keychain' = [keychain EXCEPT !["other"] = OtherEntry]
    /\ UNCHANGED <<handle, variant, location, dirExists, fileExists, fileBytes, mtime,
                   now, libsecret, last, prevSaved, saved, saveFailed, everSaved,
                   everTouched>>
    /\ UNCHANGED <<envVars, lockVars, nativeUsed, history>>

PersistNext ==
    \/ \E v \in Variants, loc \in Locations, s \in {"", "svc"}, a \in {"", "acct"} :
          Construct(v, loc, s, a)
    \/ \E c \in Content, f \in {"none", "file"} : FileSave(c, f)
    \/ \E f \in {"none", "file"} : FileLoad(f)
    \/ \E c \in Content, f \in {"none", "file"} : DataProtectionSave(c, f)
    \/ \E f \in {"none", "file"} : DataProtectionLoad(f)
    \/ \E f \in {"none", "file"} : TimeLastModified(f)
    \/ \E f \in {"none", "file"} : Touch(f)
    \/ GetLocation
    \/ \E c \in Content, f \in {"none", "open", "find", "write", "file"} : KeychainSave(c, f)
    \/ \E f \in {"none", "open", "find"} : KeychainLoad(f)
    \/ \E c \in Content, f \in {"none", "native", "file"} : LibsecretSave(c, f)
    \/ LibsecretLoad
    \/ Tick
    \/ RemoveParentDir
    \/ OtherAppStores

PersistSpec == PersistInit /\ [][PersistNext]_vars

\* The waiting scenario: a process inside __enter__ keeps taking steps, but a
\* process in its critical section may stay there for ever, so only the steps
\* of __enter__ are weakly fair.
Acquire(p) ==
    \/ CreateLockFile(p)
    \/ CreateUnsupported(p)
    \/ CreateExists(p)
    \/ CreateTimeout(p)
    \/ OpenLockFile(p)
    \/ OsLock(p)
    \/ OsLockRefused(p)

LockWaitSpec ==
    /\ LockInit
    /\ [][LockLiveNext]_vars
    /\ \A p \in Procs : WF_vars(Acquire(p))

(* -------------- FilePersistence used inside a CrossPlatLock ----------- *)

\* the contents the processes save: not empty, so that an empty read is a read
\* of a truncated file, and without a carriage return, which text mode does
\* not give back
ScopedContent ==
    {c \in Content : c # <<>> /\ \A i \in 1..Len(c) : c[i] # "CR"}

\* every process has constructed FilePersistence("cache") and a CrossPlatLock
\* on one lock path; nothing has been saved
ScopedInit ==
    /\ platform \in {"posix", "windows"}
    /\ python3 \in BOOLEAN
    /\ LockStart
    /\ handle = "ready"
    /\ variant = "File"
    /\ location = "cache"
    /\ dirExists = FALSE
    /\ fileExists = FALSE
    /\ fileBytes = <<>>
    /\ mtime = 0
    /\ now = 1
    /\ keychain = [k \in Keys |-> NoEntry]
    /\ libsecret = NoEntry
    /\ last = Returned("__init__", "none")
    /\ prevSaved = FALSE
    /\ saved = NoEntry
    /\ saveFailed = FALSE
    /\ everSaved = FALSE
    /\ everTouched = FALSE
    /\ nativeUsed = FALSE
    /\ history = {}

\* FilePersistence.save, first half, by the process in its critical section:
\* open(self._location, 'w+') truncates the file
SaveTruncate(p) ==
    /\ pc[p] = "cs"
    /\ pc' = [pc EXCEPT ![p] = "saving"]
    /\ WriteFile(<<>>)
    /\ everSaved' = TRUE
    /\ UNCHANGED <<platform, python3, pathInode, fh, locked, elapsed, created,
                   lastInode, rmErrno>>
    /\ UNCHANGED <<handle, variant, location, dirExists, now, keychain, libsecret,
                   last, prevSaved, saved, saveFailed, everTouched, nativeUsed,
                   history>>

\* FilePersistence.save, second half: handle.write(content) and the close
\* that ends the with block put the content into the file
SaveWrite(p, content) ==
    /\ pc[p] = "saving"
    /\ pc' = [pc EXCEPT ![p] = "cs"]
    /\ WriteFile(TextWrite(content, platform))
    /\ Record(Returned("save", "none"))
    /\ saved' = Entry(content)
    /\ history' = history \cup {content}
    /\ UNCHANGED <<platform, python3, pathInode, fh, locked, elapsed, created,
                   lastInode, rmErrno>>
    /\ UNCHANGED <<handle, variant, location, dirExists, now, keychain, libsecret,
                   saveFailed, everSaved, everTouched, nativeUsed>>

\* FilePersistence.load by the process in its critical section
ScopedLoad(p) == pc[p] = "cs" /\ FileLoad("none")

ScopedNext ==
    \E p \in Procs :
        \/ LockStep(p)
        \/ SaveTruncate(p)
        \/ \E c \in ScopedContent : SaveWrite(p, c)
        \/ ScopedLoad(p)

ScopedSpec == ScopedInit /\ [][ScopedNext]_vars

(* --------------------------- C1 ---------------------------------------- *)

\* C1: mutual exclusion - no reachable state has two processes inside their
\* critical sections at the same time.
C1_MutualExclusion ==
    \A p, q \in Procs : p # q => ~(pc[p] = "cs" /\ pc[q] = "cs")

(* --------------------------- C5 ---------------------------------------- *)

\* C5: lock contention is never an error - __enter__ never raises because
\* another process holds the lock file or the OS-level lock.  (In this model
\* the only exception that leaves __enter__ is the refused OS-level lock.)
C5_NoRaiseOnContention ==
    \A p \in Procs : pc[p] # "enter_raised"

(* --------------------------- C6 ---------------------------------------- *)

Acquiring(p) == pc[p] \in {"create", "open", "lock"}

\* C6: handover liveness - when b is acquiring while a is in its critical
\* section (and a leaves it, which the fairness of LockLiveSpec provides),
\* b eventually enters its critical section.
C6_Handover ==
    \A a, b \in Procs :
        (a # b) => ((pc[a] = "cs" /\ Acquiring(b)) ~> (pc[b] = "cs"))

(* --------------------------- C7 ---------------------------------------- *)

\* the file p locked is still at the path and no other process has it open
Undisturbed(p) == pathInode # 0 /\ pathInode = lastInode[p] /\ ~OpenByOther(p)

\* another process has removed the file, recreated it, or is holding it
Disturbed(p) ==
    \/ pathInode = 0
    \/ pathInode # lastInode[p]
    \/ OpenByOther(p)

\* C7: release removes the lock file - the os.remove step of __exit__ leaves
\* no file at the path when no other process has recreated or is holding the
\* file, and when another process has removed it, recreated it or is holding
\* it, __exit__ returns without raising (a failure of os.remove that comes
\* from the environment alone, EPERM, is not the case the claim is about).
C7_Release ==
    [][\A p \in Procs :
          (pc[p] = "remove" /\ pc'[p] # "remove" /\ rmErrno'[p] # EPERM) =>
              /\ Undisturbed(p) => (pathInode' = 0 /\ pc'[p] = "done")
              /\ Disturbed(p) => pc'[p] = "done"]_vars

\* a process has returned from __exit__ although its os.remove was refused
\* because another process has the file open
C7_Witness ==
    \E p \in Procs : pc[p] = "done" /\ rmErrno[p] = EACCES

(* --------------------------- C2 ---------------------------------------- *)

\* C2: round trip - a save(C) that returned without raising, followed at once
\* by load() on the same handle, returns exactly C, for every class.
C2_RoundTrip ==
    (handle = "ready" /\ prevSaved /\ last.op = "load" /\ last.fault = "none") =>
        (last.kind = "ok" /\ last.text = saved.value)

(* --------------------------- C3 ---------------------------------------- *)

FreshHandle ==
    /\ handle = "ready"
    /\ ~everSaved
    /\ ~everTouched
    /\ ~fileExists
    /\ ~keychain["mine"].present
    /\ ~libsecret.present

\* C4: on a freshly constructed handle whose location does not exist, load()
\* and time_last_modified() raise PersistenceNotFound carrying ENOENT.
C4_FreshNotFound ==
    (FreshHandle /\ last.op \in {"load", "time_last_modified"} /\ last.fault = "none") =>
        (last.kind = "PersistenceNotFound" /\ last.errno = ENOENT)

\* time_last_modified() has raised on a fresh keyring handle
C4_Witness ==
    /\ FreshHandle
    /\ variant \in {"Keychain", "Libsecret"}
    /\ last.op = "time_last_modified"
    /\ last.kind = "PersistenceNotFound"

(* --------------------------- C8 ---------------------------------------- *)

\* C8: whole-content replacement - after any sequence of save() calls that all
\* succeeded, load() returns exactly the content of the most recent save.
C8_WholeReplace ==
    (handle = "ready" /\ saved.present /\ ~saveFailed
        /\ last.op = "load" /\ last.fault = "none") =>
        (last.kind = "ok" /\ last.text = saved.value)

(* --------------------------- C9 ---------------------------------------- *)

\* C9 as claimed: FilePersistence.save creates the parent directories when they
\* are absent at the time of the save, so that save succeeds.
C9_SaveCreatesDirs ==
    (handle = "ready" /\ variant = "File" /\ last.op = "save" /\ last.fault = "none") =>
        (last.kind = "ok" /\ ParentExists /\ fileExists)

\* C9 as amended: the constructor (not save) creates the parent directories;
\* save never creates a directory: with the parent directory present it
\* writes the file, and a load() then returns the content with its line ends
\* as text mode reads them; with the parent directory absent it raises ENOENT
\* and creates nothing.
C9_InitCreatesDirs ==
    [][/\ (handle = "none" /\ handle' = "ready") =>
              (DirName(location') = "" \/ dirExists')
       /\ \A c \in Content :
              (variant = "File" /\ FileSave(c, "none")) =>
                  /\ dirExists' = dirExists
                  /\ IF ParentExists
                     THEN /\ last'.kind = "ok"
                          /\ fileExists'
                          /\ TextRead(fileBytes', platform, python3)
                                = NewlinesIn(NewlinesOut(c, platform), platform, python3)
                     ELSE /\ last'.kind = "OSError"
                          /\ last'.errno = ENOENT
                          /\ ~fileExists']_vars

\* save() has raised ENOENT because the parent directory was absent
C9_Witness ==
    /\ handle = "ready"
    /\ variant = "File"
    /\ last.op = "save"
    /\ last.kind = "OSError"
    /\ last.errno = ENOENT
    /\ ~ParentExists

(* --------------------------- C10 --------------------------------------- *)

\* a touch() by the user of a FilePersistence that has been saved
TouchOfSaved == variant = "File" /\ saved.present /\ fileExists /\ Touch("none")

\* C10 as claimed: touch() on a saved handle makes time_last_modified() return
\* a strictly later value and leaves what load() returns unchanged.
C10_TouchStrictlyLater ==
    [][TouchOfSaved =>
          (mtime' > mtime
           /\ TextRead(fileBytes', platform, python3)
                 = TextRead(fileBytes, platform, python3))]_vars

\* C10 as amended: touch() on a saved handle sets the modification time to the
\* current time, so time_last_modified() is not earlier than before (strictly
\* later exactly when the clock has moved on since the last modification), and
\* leaves what load() returns unchanged.
C10_TouchNotEarlier ==
    [][TouchOfSaved =>
          (/\ last'.kind = "ok"
           /\ mtime' = now
           /\ mtime' >= mtime
           /\ (now > mtime <=> mtime' > mtime)
           /\ fileExists'
           /\ TextRead(fileBytes', platform, python3)
                 = TextRead(fileBytes, platform, python3))]_vars

\* touch() has returned on a saved FilePersistence after the clock moved on
C10_Witness ==
    /\ handle = "ready"
    /\ variant = "File"
    /\ saved.present
    /\ last.op = "touch"
    /\ last.kind = "ok"
    /\ mtime = now
    /\ now > 1

(* --------------------------- C11 --------------------------------------- *)

\* the keyring-backed classes
Keyring == {"Keychain", "Libsecret"}

\* C11: constructing a keyring-backed handle with an empty identifying field
\* fails at once: it raises before any call to the native secret store and
\* before the directory of the signal file is created.
C11_FailFast ==
    [][\A v \in Keyring, loc \in Locations, s \in {"", "svc"}, a \in {"", "acct"} :
          ((s = "" \/ a = "") /\ Construct(v, loc, s, a)) =>
              /\ handle' = "failed"
              /\ last'.kind = "ValueError"
              /\ nativeUsed' = FALSE
              /\ dirExists' = dirExists]_vars

(* --------------------------- C12 --------------------------------------- *)

\* the failures injected into a keyring save() that make the write of the
\* secret fail (Keychain: opening the store, find, add or modify;
\* libsecret: LibSecretAgent.save returns False)
WriteFaults == {"open", "find", "write", "native"}

\* the step is a save() on a keyring handle: only save() records a save, and
\* the two steps of the environment change the clock or the directory
KeyringSaveStep ==
    /\ handle = "ready"
    /\ variant \in Keyring
    /\ last'.op = "save"
    /\ now' = now
    /\ dirExists' = dirExists

SignalFileSame ==
    fileExists' = fileExists /\ fileBytes' = fileBytes /\ mtime' = mtime

\* the secret entry of the handle in the state after the step is content c
SecretIs(c) ==
    IF variant = "Keychain" THEN keychain'["mine"] = Entry(Utf8Encode(c))
    ELSE libsecret' = Entry(c)

\* C12 as claimed: a keyring save() writes the secret first and touches the
\* signal file only after that write succeeded; after a successful save
\* time_last_modified() does not raise NotFound and is later than before the
\* save; when the write of the secret fails the signal file is neither
\* created nor touched.
C12_SignalLater ==
    [][KeyringSaveStep =>
          /\ (last'.fault \notin WriteFaults /\ last'.kind = "ok") =>
                 (fileExists' /\ (fileExists => mtime' > mtime))
          /\ ~SignalFileSame => SecretIs(saved'.value)
          /\ last'.fault \in WriteFaults => SignalFileSame]_vars

\* C12 as amended: a keyring save() writes the secret first and touches the
\* signal file only after that write succeeded; after a save whose write and
\* touch succeeded the signal file exists and carries the current time, which
\* is not earlier than its time before the save (strictly later exactly when
\* the clock has moved on); the secret stays written when the touch fails;
\* when the write of the secret fails, the secret and the signal file are left
\* as they were.
C12_SaveOrder ==
    [][KeyringSaveStep =>
          /\ (last'.fault \notin WriteFaults /\ last'.kind = "ok") =>
                 /\ SecretIs(saved'.value)
                 /\ fileExists'
                 /\ mtime' = now
                 /\ mtime' >= mtime
                 /\ (now > mtime <=> mtime' > mtime)
          /\ ~SignalFileSame => (last'.kind = "ok" /\ SecretIs(saved'.value))
          /\ last'.fault = "file" =>
                 /\ last'.kind = "OSError"
                 /\ SignalFileSame
                 /\ \E c \in Content : SecretIs(c)
          /\ last'.fault \in WriteFaults =>
                 /\ SignalFileSame
                 /\ keychain' = keychain
                 /\ libsecret' = libsecret
                 /\ (variant = "Keychain" => last'.kind # "ok")]_vars

\* a KeychainPersistence save() has returned after the clock moved on: the
\* secret is stored and the signal file carries the current time
C12_Witness ==
    /\ handle = "ready"
    /\ variant = "Keychain"
    /\ last.op = "save"
    /\ last.kind = "ok"
    /\ keychain["mine"].present
    /\ fileExists
    /\ mtime = now
    /\ now > 1

(* --------------------------- C13 --------------------------------------- *)

C14_NoTornRead ==
    last.op = "load" =>
        \/ last.kind = "PersistenceNotFound"
        \/ last.kind = "ok" /\ last.text \in history

(* --------------------------- C15 --------------------------------------- *)

\* C15: bounded acquisition - _try_to_create_lock_file always terminates: it
\* returns True as soon as its exclusive create succeeds and False once its
\* retry budget is used up or atomic create is unsupported, even when the
\* lock file exists for ever; __enter__ as a whole never waits without bound.
C15_BoundedAcquisition ==
    /\ [](\A p \in Procs : elapsed[p] <= TimeoutTicks)
    /\ [][\A p \in Procs :
            (pc[p] = "create" /\ pc'[p] # "create") =>
                /\ pc'[p] = "open"
                /\ created'[p] <=> (python3 /\ pathInode = 0 /\ pathInode' # 0)
                /\ (~created'[p] /\ python3) => elapsed[p] >= TimeoutTicks]_vars
    /\ \A p \in Procs : (pc[p] = "create") ~> (pc[p] # "create")
    /\ \A p \in Procs : Acquiring(p) ~> (pc[p] \in {"cs", "enter_raised"})

\* _try_to_create_lock_file has returned False on its deadline while another
\* process is in its critical section and the lock file exists
C15_Witness ==
    \E p, q \in Procs :
        /\ p # q
        /\ pc[q] = "cs"
        /\ pc[p] = "open"
        /\ python3
        /\ ~created[p]
        /\ pathInode # 0

(* --------------------------- C16 --------------------------------------- *)

\* C16: the advisory step never decides - whatever _try_to_create_lock_file
\* returns, __enter__ next opens the same path and asks for the OS-level
\* exclusive lock, and the critical section is entered only by obtaining it.
C16_AdvisoryNeverDecides ==
    [][\A p \in Procs :
          /\ (pc[p] = "create" /\ pc'[p] # "create") => pc'[p] = "open"
          /\ (pc[p] = "open" /\ pc'[p] # "open") =>
                 (pc'[p] = "lock" /\ fh'[p] # 0 /\ fh'[p] = pathInode')
          /\ (pc[p] # "cs" /\ pc'[p] = "cs") =>
                 (pc[p] = "lock" /\ ~LockedByOther(p) /\ locked'[p])]_vars

\* a process is in its critical section, holding the OS-level lock, after its
\* advisory step timed out
C16_Witness ==
    \E p \in Procs :
        /\ pc[p] = "cs"
        /\ locked[p]
        /\ python3
        /\ ~created[p]

(* --------------------------- C17 --------------------------------------- *)

\* C17: release order and error filter - __exit__ releases the OS-level lock
\* before it tries to delete the lock file; a deletion failure with ENOENT or
\* EACCES is swallowed and __exit__ returns, a failure with any other errno
\* is raised to the caller.
C17_ReleaseOrder ==
    [][\A p \in Procs :
          /\ (pc[p] = "cs" /\ pc'[p] # "cs") =>
                 (pc'[p] = "remove" /\ ~locked'[p] /\ fh'[p] = 0
                  /\ pathInode' = pathInode)
          /\ (pc[p] = "remove" /\ pc'[p] # "remove") =>
                 /\ ~locked[p] /\ fh[p] = 0
                 /\ rmErrno'[p] \in {0, ENOENT, EACCES} => pc'[p] = "done"
                 /\ rmErrno'[p] \notin {0, ENOENT, EACCES} => pc'[p] = "exit_raised"
                 /\ pathInode' # pathInode => (rmErrno'[p] = 0 /\ pathInode' = 0)]_vars

\* __exit__ has raised the EPERM of os.remove
C17_Witness == \E p \in Procs : pc[p] = "exit_raised" /\ rmErrno[p] = EPERM

(* --------------------------- C18 --------------------------------------- *)

\* the step is a load() or time_last_modified() on a file-based handle
FileReadStep ==
    /\ handle = "ready"
    /\ variant \in {"File", "DataProtection"}
    /\ last'.op \in {"load", "time_last_modified"}
    /\ now' = now
    /\ dirExists' = dirExists

\* C18: file error classification - load() and time_last_modified() raise
\* PersistenceNotFound exactly when the underlying error is "does not exist";
\* every other I/O error reaches the caller as the original error; in both
\* cases the stored file is left unchanged.
C18_ErrorClassification ==
    [][FileReadStep =>
          /\ SignalFileSame
          /\ last'.kind = "PersistenceNotFound" <=> (last'.fault = "none" /\ ~fileExists)
          /\ last'.kind = "PersistenceNotFound" => last'.errno = ENOENT
          /\ last'.fault = "file" => (last'.kind = "OSError" /\ last'.errno = EACCES)
          /\ (last'.fault = "none" /\ fileExists) =>
                 \/ last'.kind = "ok"
                 \/ /\ variant = "DataProtection"
                    /\ last'.op = "load"
                    /\ last'.kind = "OSError"
                    /\ last'.errno = EINVAL]_vars

\* load() has raised the EACCES of open() on an existing file
C18_Witness ==
    /\ handle = "ready"
    /\ variant = "File"
    /\ fileExists
    /\ last.op = "load"
    /\ last.kind = "OSError"
    /\ last.errno = EACCES

(* --------------------------- C19 --------------------------------------- *)

\* C19: uniform native error kind - every non-zero status of the native
\* Keychain layer, in any step (opening the store in Keychain.__enter__, find,
\* add, modify), reaches the caller as a KeychainError carrying that status.
C19_UniformKeychainError ==
    (handle = "ready" /\ variant = "Keychain" /\ last.op \in {"load", "save"}
        /\ last.fault \in {"open", "find", "write"}) =>
        /\ last.kind = "KeychainError"
        /\ last.errno = (IF last.fault = "open" THEN NO_DEFAULT ELSE ACCESS_DENIED)

(* --------------------------- C20 --------------------------------------- *)

\* the step is a KeychainPersistence.save(), which calls set_generic_password
\* once the store is open
KeychainSaveStep ==
    /\ handle = "ready"
    /\ variant = "Keychain"
    /\ last'.op = "save"
    /\ now' = now
    /\ dirExists' = dirExists

\* C20: Keychain upsert - set_generic_password adds the entry when find
\* reports ITEM_NOT_FOUND and modifies it when find succeeds; after it
\* returns the store holds one entry for (service, account), with the value
\* given; entries under other keys are unchanged; on any other find status
\* (or when the store cannot be opened, or the write fails) nothing is written.
C20_Upsert ==
    [][KeychainSaveStep =>
          /\ keychain'["other"] = keychain["other"]
          /\ last'.fault \in {"open", "find", "write"} => keychain' = keychain
          /\ last'.fault \in {"none", "file"} =>
                 /\ keychain'["mine"].present
                 /\ \E c \in Content : keychain'["mine"].value = Utf8Encode(c)
          /\ last'.kind = "ok" =>
                 keychain'["mine"] = Entry(Utf8Encode(saved'.value))]_vars

\* a save() has modified the entry an earlier save() added, next to the entry
\* of another application
C20_Witness ==
    /\ handle = "ready"
    /\ variant = "Keychain"
    /\ prevSaved
    /\ last.op = "save"
    /\ last.kind = "ok"
    /\ keychain["mine"] = Entry(Utf8Encode(saved.value))
    /\ keychain["other"] = OtherEntry

(* --------------------------- C21 --------------------------------------- *)

\* another process holds the OS-level lock on the file at the lock path
HeldByOther(p) ==
    /\ pathInode # 0
    /\ \E q \in Procs : q # p /\ locked[q] /\ fh[q] = pathInode

\* C21: release does not take away another process's lock file - the
\* os.remove of __exit__ never deletes a lock file another process holds the
\* OS-level lock on: the removal fails and is swallowed, and the file is
\* still at the path.
C21_ReleaseKeepsOthersFile ==
    [][\A p \in Procs :
          (pc[p] = "remove" /\ pc'[p] # "remove" /\ rmErrno'[p] # EPERM
              /\ HeldByOther(p)) =>
              (pathInode' = pathInode /\ pc'[p] = "done")]_vars

(* --------------------------- C22 --------------------------------------- *)

ReadOnlyOps == {"load", "time_last_modified", "get_location"}

\* the step is a load(), time_last_modified() or get_location() on the handle:
\* only these record such a call, and the two steps of the environment change
\* the clock or the directory
ReadOnlyStep ==
    /\ handle = "ready"
    /\ last'.op \in ReadOnlyOps
    /\ now' = now
    /\ dirExists' = dirExists

\* the file, the secret entries and the location of the handle are the same
\* after the step as before it
StorageSame ==
    /\ SignalFileSame
    /\ keychain' = keychain
    /\ libsecret' = libsecret
    /\ location' = location
    /\ handle' = handle
    /\ variant' = variant

\* C22: read-only operations have no effect on storage - load(),
\* time_last_modified() and get_location() on any backend variant, whether
\* they return or raise, leave the stored content, the existence of the file
\* or secret entry and the modification time unchanged; get_location()
\* returns the location the handle was constructed with, which no step on a
\* constructed handle changes.
C22_ReadOnly ==
    [][/\ ReadOnlyStep =>
             /\ StorageSame
             /\ last'.op = "get_location" =>
                    (last'.kind = "ok" /\ last'.text = <<location>>)
       /\ handle = "ready" => location' = location]_vars

\* a load() on a Keychain handle has raised while the secret and the signal
\* file are both there
C22_Witness ==
    /\ handle = "ready"
    /\ variant = "Keychain"
    /\ last.op = "load"
    /\ last.kind # "ok"
    /\ keychain["mine"].present
    /\ fileExists

(* --------------------------- C23 --------------------------------------- *)

\* load() on the keyring handle in this state raises PersistenceNotFound:
\* the Keychain reports ITEM_NOT_FOUND, or libsecret has no entry
LoadNotFound ==
    IF variant = "Keychain" THEN FindStatus("none") = ITEM_NOT_FOUND
    ELSE ~libsecret.present

\* time_last_modified() in this state raises PersistenceNotFound: the signal
\* file cannot be opened because it, or its directory, does not exist
TlmNotFound == OpenForReadErrno("none") = ENOENT

\* C23: keyring consistency - for a keyring-backed handle used by a single
\* process, after any sequence of completed save() and load() calls,
\* successful or failed, load() raises PersistenceNotFound if and only if
\* time_last_modified() raises PersistenceNotFound.
C23_KeyringConsistent ==
    (handle = "ready" /\ variant \in Keyring /\ ParentExists) =>
        (LoadNotFound <=> TlmNotFound)

====
